---------------------------- MODULE Spec2Model ----------------------------
(***************************************************************************)
(* A model of the engineered pieces of the kibana excerpt:                 *)
(*   - the zod schemas durationSchema, metadataSchema and semVerSchema,    *)
(*   - the ES|QL autocomplete suggestion builders,                         *)
(*   - the cases TemplateSelector component,                               *)
(*   - the DeleteExceptionList endpoint declared by its OpenAPI document,  *)
(*   - the dashboard options list control driven by its functional test,   *)
(*   - the EsArchiverProvider service and the suites that load archives,   *)
(*   - the buildQuery of the user authentications search strategy.         *)
(* Each piece has its own specification; the variables of the other pieces *)
(* stay at their idle values.                                              *)
(***************************************************************************)
EXTENDS Integers, Sequences, FiniteSets, TLC

VARIABLES
    schemaInput,            \* the value handed to a schema's safeParse
    schemaResult,           \* what safeParse returned for it
    suggestions,            \* the suggestion list assembled from the builders
    templates,              \* TemplateSelector: the `templates` prop
    selectedTemplate,       \* TemplateSelector: the useState value
    onTemplateChangeCalls,  \* TemplateSelector: arguments of onTemplateChange calls
    changeEvents,           \* TemplateSelector: values of the change events so far
    store,                  \* exception lists held by the server
    request,                \* the last DeleteExceptionList request
    response,               \* the response it received
    storeBefore,            \* the store as that request found it
    savedState,             \* dashboard: control settings of the last save
    currentState,           \* dashboard: control settings now
    unsavedBadge,           \* dashboard: dashboardUnsavedChangesBadge exists
    optionsList,            \* options list: field, search technique, search string
    availableOptions,       \* options list: the options the popover offers
    esArchives,      \* es archiver: config testData.esArchives
    lifecycle,       \* es archiver: handlers registered per lifecycle phase
    archiverPc,      \* es archiver: phase of the run, loop index, suite
    inProgress,      \* es archiver: load/unload calls not yet settled
    archiverLog,     \* es archiver: load/unload calls started and settled
    fieldsArgument,  \* buildFieldsDefinitionsWithMetadata: its fields argument
    fieldDefinitions, \* buildFieldsDefinitionsWithMetadata: what it returned
    queryOptions,    \* buildQuery: the options object its caller holds
    queryCall        \* buildQuery: the argument it was handed and what it returned

schemaVars == <<schemaInput, schemaResult>>
suggestVars == <<suggestions>>
templateVars == <<templates, selectedTemplate, onTemplateChangeCalls, changeEvents>>
apiVars == <<store, request, response, storeBefore>>
dashboardVars == <<savedState, currentState, unsavedBadge>>
searchVars == <<optionsList, availableOptions>>
archiverVars == <<esArchives, lifecycle, archiverPc, inProgress, archiverLog>>
fieldsVars == <<fieldsArgument, fieldDefinitions>>
queryVars == <<queryOptions, queryCall>>
vars == <<schemaVars, suggestVars, templateVars, apiVars, dashboardVars, searchVars, archiverVars, fieldsVars, queryVars>>

(***************************************************************************)
(* JavaScript values.  A string is a sequence of one-character strings.    *)
(***************************************************************************)
Undefined == [type |-> "undefined"]
Null == [type |-> "null"]
Str(s) == [type |-> "string", str |-> s]
Num(n) == [type |-> "number", num |-> n]

StringsUpTo(alphabet, n) == UNION {[1..k -> alphabet] : k \in 0..n}

\* x ?? y
NullishCoalesce(x, y) == IF x = Undefined \/ x = Null THEN y ELSE x

\* \d, [0-9]
IsDigit(c) == c \in {"0", "1", "2", "3", "4", "5", "6", "7", "8", "9"}

DigitValue(c) ==
    CASE c = "0" -> 0 [] c = "1" -> 1 [] c = "2" -> 2 [] c = "3" -> 3
      [] c = "4" -> 4 [] c = "5" -> 5 [] c = "6" -> 6 [] c = "7" -> 7
      [] c = "8" -> 8 [] c = "9" -> 9

\* parseInt(digits, 10) of a non-empty run of decimal digits
RECURSIVE ParseInt10(_)
ParseInt10(digits) ==
    IF Len(digits) = 0 THEN 0
    ELSE 10 * ParseInt10(SubSeq(digits, 1, Len(digits) - 1)) + DigitValue(digits[Len(digits)])

(***************************************************************************)
(* Idle values of each piece.                                              *)
(***************************************************************************)
NotParsed == [status |-> "not_parsed"]
NoInput == [schema |-> "none"]
NoRequest == [kind |-> "none"]
NoResponse == [status |-> 0, schema |-> "none"]

(***************************************************************************)
(* Results of safeParse: a value, or the paths of the issues raised.       *)
(***************************************************************************)
Ok(v) == [status |-> "ok", value |-> v]
Invalid(paths) == [status |-> "error", issues |-> paths]
Thrown == [status |-> "thrown"]
RootPath == <<>>

(***************************************************************************)
(* durationSchema                                                          *)
(***************************************************************************)
\* the character class [m|d|s|h] of /^\d+[m|d|s|h]$/
DurationUnitClass == {"m", "|", "d", "s", "h"}

\* the character class [m|s|h|d] of /(\d+)([m|s|h|d])/
DurationPartsUnitClass == {"m", "|", "s", "h", "d"}

\* one character of /^\d+[m|d|s|h]$/, read left to right
DurationRegexStep(q, c) ==
    CASE q = "start" /\ IsDigit(c) -> "digits"
      [] q = "digits" /\ IsDigit(c) -> "digits"
      [] q = "digits" /\ c \in DurationUnitClass -> "unit"
      [] OTHER -> "dead"

RECURSIVE DurationRegexRun(_, _, _)
DurationRegexRun(s, i, q) ==
    IF i > Len(s) THEN q ELSE DurationRegexRun(s, i + 1, DurationRegexStep(q, s[i]))

\* /^\d+[m|d|s|h]$/.test(s)
DurationRegexTest(s) == DurationRegexRun(s, 1, "start") = "unit"

\* the last index of the run of digits that starts at i (s[i] is a digit)
RECURSIVE DigitRunEnd(_, _)
DigitRunEnd(s, i) ==
    IF i < Len(s) /\ IsDigit(s[i + 1]) THEN DigitRunEnd(s, i + 1) ELSE i

\* /(\d+)([m|s|h|d])/ matches at start index i: the greedy run of digits is
\* followed by a character of the class (a shorter run is followed by a digit)
DurationPartsMatchAt(s, i) ==
    /\ IsDigit(s[i])
    /\ DigitRunEnd(s, i) < Len(s)
    /\ s[DigitRunEnd(s, i) + 1] \in DurationPartsUnitClass

\* val.match(/(\d+)([m|s|h|d])/): the leftmost match, or null
DurationParts(val) ==
    LET starts == {i \in 1..Len(val) : DurationPartsMatchAt(val, i)}
    IN  IF starts = {} THEN Null
        ELSE LET i == CHOOSE k \in starts : \A m \in starts : k <= m
                 j == DigitRunEnd(val, i)
             IN  [type |-> "match", digits |-> SubSeq(val, i, j), unit |-> val[j + 1]]

\* the transform of durationSchema
DurationTransform(val) ==
    LET parts == DurationParts(val)
    IN  IF parts = Null THEN Thrown
        ELSE Ok([value |-> ParseInt10(parts.digits), unit |-> parts.unit, json |-> val])

\* durationSchema.safeParse(data)
durationSchema(data) ==
    IF data.type # "string" THEN Invalid({RootPath})
    ELSE IF ~DurationRegexTest(data.str) THEN Invalid({RootPath})
    ELSE DurationTransform(data.str)

(***************************************************************************)
(* semVerSchema                                                            *)
(***************************************************************************)
\* one character of /^[0-9]{1,}.[0-9]{1,}.[0-9]{1,}$/, the dots left unescaped
SemVerRegexStepUnescapedDot(q, c) ==
    CASE q = "start" /\ IsDigit(c) -> "major"
      [] q = "major" /\ IsDigit(c) -> "major"
      [] q = "major" -> "dot1"
      [] q = "dot1" /\ IsDigit(c) -> "minor"
      [] q = "minor" /\ IsDigit(c) -> "minor"
      [] q = "minor" -> "dot2"
      [] q = "dot2" /\ IsDigit(c) -> "patch"
      [] q = "patch" /\ IsDigit(c) -> "patch"
      [] OTHER -> "dead"

\* one character of /^[0-9]{1,}\.[0-9]{1,}\.[0-9]{1,}$/, read left to right
SemVerRegexStep(q, c) ==
    CASE q = "start" /\ IsDigit(c) -> "major"
      [] q = "major" /\ IsDigit(c) -> "major"
      [] q = "major" /\ c = "." -> "dot1"
      [] q = "dot1" /\ IsDigit(c) -> "minor"
      [] q = "minor" /\ IsDigit(c) -> "minor"
      [] q = "minor" /\ c = "." -> "dot2"
      [] q = "dot2" /\ IsDigit(c) -> "patch"
      [] q = "patch" /\ IsDigit(c) -> "patch"
      [] OTHER -> "dead"

RECURSIVE SemVerRegexRun(_, _, _)
SemVerRegexRun(s, i, q) ==
    IF i > Len(s) THEN q ELSE SemVerRegexRun(s, i + 1, SemVerRegexStep(q, s[i]))

\* semVerRegex.test(maybeSemVer)
semVerRegex(s) == SemVerRegexRun(s, 1, "start") = "patch"

\* semVerSchema.safeParse(data)
semVerSchema(data) ==
    IF data.type # "string" THEN Invalid({RootPath})
    ELSE IF ~semVerRegex(data.str) THEN Invalid({RootPath})
    ELSE Ok(data)

(***************************************************************************)
(* metadataSchema                                                          *)
(***************************************************************************)
\* z.number().default(1000)
DefaultLimit == 1000

\* the value missing from an aborted parse
Aborted == [type |-> "aborted"]

\* z.string()
ZString(v) == IF v.type = "string" THEN v ELSE Aborted

\* z.optional(z.string()): undefined passes through
ZOptionalString(v) == IF v = Undefined THEN Undefined ELSE ZString(v)

\* z.number().default(1000)
ZNumberDefault(v) ==
    IF v = Undefined THEN Num(DefaultLimit)
    ELSE IF v.type = "number" THEN v ELSE Aborted

\* z.optional(z.number().default(1000)): undefined passes through undefaulted
ZOptionalNumberDefault(v) == IF v = Undefined THEN Undefined ELSE ZNumberDefault(v)

\* z.object({ source, destination, limit }): aborted when a key is
MetadataObject(data) ==
    IF data.type # "object" THEN Aborted
    ELSE LET source == ZString(data.source)
             destination == ZOptionalString(data.destination)
             limit == ZOptionalNumberDefault(data.limit)
         IN  IF Aborted \in {source, destination, limit} THEN Aborted
             ELSE [type |-> "object", source |-> source,
                   destination |-> destination, limit |-> limit]

\* .transform((metadata) => ({ ...metadata, destination: .. ?? source, limit: .. ?? 1000 }))
MetadataObjectTransform(metadata) ==
    [type |-> "object",
     source |-> metadata.source,
     destination |-> NullishCoalesce(metadata.destination, metadata.source),
     limit |-> NullishCoalesce(metadata.limit, Num(DefaultLimit))]

\* z.string().transform((value) => ({ source: value, destination: value, limit: 1000 }))
MetadataStringTransform(value) ==
    [type |-> "object", source |-> value, destination |-> value,
     limit |-> Num(DefaultLimit)]

\* object-schema .or( string-schema ): the first option that parses
MetadataUnion(data) ==
    IF MetadataObject(data) # Aborted THEN MetadataObjectTransform(MetadataObject(data))
    ELSE IF ZString(data) # Aborted THEN MetadataStringTransform(data)
    ELSE Aborted

\* the three checks of .superRefine((value, ctx) => ...)
MetadataLimitIssue(value) ==
    IF value.limit.num < 1 THEN {<<"limit">>} ELSE {}

MetadataSourceIssue(value) ==
    IF Len(value.source.str) = 0 THEN {<<"source">>} ELSE {}

\* the destination check reading the source, as a copied check would
MetadataDestinationIssueOfSource(value) ==
    IF Len(value.source.str) = 0 THEN {<<"destination">>} ELSE {}

MetadataDestinationIssue(value) ==
    IF Len(value.destination.str) = 0 THEN {<<"destination">>} ELSE {}

MetadataRefine(value) ==
    MetadataLimitIssue(value) \cup MetadataSourceIssue(value)
        \cup MetadataDestinationIssue(value)

\* metadataSchema.safeParse(data)
metadataSchema(data) ==
    LET value == MetadataUnion(data)
    IN  IF value = Aborted THEN Invalid({RootPath})
        ELSE IF MetadataRefine(value) # {} THEN Invalid(MetadataRefine(value))
        ELSE Ok(value)

(***************************************************************************)
(* The inputs of the schemas.                                              *)
(***************************************************************************)
MaxDurationLen == 3
MaxSemVerLen == 5
MaxNameLen == 1
MaxLimit == 2

DurationChars == {"0", "7", "m", "d", "s", "h", "|", "x"}
SemVerChars == {"0", "9", ".", "a"}
NameChars == {"a", "b"}

DurationInputs ==
    {[schema |-> "duration", data |-> Str(s)] : s \in StringsUpTo(DurationChars, MaxDurationLen)}
        \cup {[schema |-> "duration", data |-> Num(1)]}

SemVerInputs ==
    {[schema |-> "semver", data |-> Str(s)] : s \in StringsUpTo(SemVerChars, MaxSemVerLen)}
        \cup {[schema |-> "semver", data |-> Num(1)]}

NameValues == {Str(s) : s \in StringsUpTo(NameChars, MaxNameLen)}
LimitValues == {Num(n) : n \in (-1)..MaxLimit} \cup {Num(DefaultLimit)}

MetadataData ==
    [type : {"object"},
     source : NameValues \cup {Undefined, Num(1)},
     destination : NameValues \cup {Undefined, Null},
     limit : LimitValues \cup {Undefined, Null, Str(<<"1">>)}]
        \cup NameValues \cup {Num(1), Undefined}

MetadataInputs == {[schema |-> "metadata", data |-> d] : d \in MetadataData}

(***************************************************************************)
(* The schemas as a state machine: an input is drawn, safeParse is applied.*)
(***************************************************************************)
SchemaFrame == UNCHANGED <<suggestVars, templateVars, apiVars, dashboardVars, searchVars, archiverVars, fieldsVars, queryVars>>

SafeParseDuration ==
    /\ schemaInput.schema = "duration"
    /\ schemaResult = NotParsed
    /\ schemaResult' = durationSchema(schemaInput.data)
    /\ UNCHANGED schemaInput
    /\ SchemaFrame

SafeParseSemVer ==
    /\ schemaInput.schema = "semver"
    /\ schemaResult = NotParsed
    /\ schemaResult' = semVerSchema(schemaInput.data)
    /\ UNCHANGED schemaInput
    /\ SchemaFrame

SafeParseMetadata ==
    /\ schemaInput.schema = "metadata"
    /\ schemaResult = NotParsed
    /\ schemaResult' = metadataSchema(schemaInput.data)
    /\ UNCHANGED schemaInput
    /\ SchemaFrame

(***************************************************************************)
(* ES|QL autocomplete suggestion builders.  Labels and texts are opaque    *)
(* strings; a sortText is a sequence of characters, because it is compared.*)
(***************************************************************************)
Text(s) == [type |-> "string", text |-> s]

\* a JavaScript condition on an optional string
Truthy(v) == v # Undefined /\ v # Null /\ v # Text("")

\* the UTF-16 code unit of a character used in a sortText
CharCode(c) ==
    CASE c = "1" -> 49 [] c = "A" -> 65 [] c = "C" -> 67 [] c = "D" -> 68

\* a < b on JavaScript strings: by code units, a proper prefix first
RECURSIVE StringLess(_, _)
StringLess(a, b) ==
    IF Len(b) = 0 THEN FALSE
    ELSE IF Len(a) = 0 THEN TRUE
    ELSE IF CharCode(Head(a)) # CharCode(Head(b)) THEN CharCode(Head(a)) < CharCode(Head(b))
    ELSE StringLess(Tail(a), Tail(b))

\* String.prototype.toUpperCase on the names of the model
ToUpperCase(s) ==
    CASE s = "avg" -> "AVG" [] s = "abs" -> "ABS" [] s = "bucket" -> "BUCKET"
      [] s = "and" -> "AND" [] s = "is null" -> "IS NULL"
      [] s = "limit" -> "LIMIT" [] s = "show" -> "SHOW"
      [] s = "by" -> "BY" [] s = "metadata" -> "METADATA"
      [] OTHER -> s

\* type.charAt(0).toUpperCase() + type.slice(1)
TitleCase(s) ==
    CASE s = "keyword" -> "Keyword" [] s = "long" -> "Long" [] OTHER -> s

\* the backtick character, which a TLA+ string cannot hold
Backtick == "'"

TRIGGER_SUGGESTION_COMMAND ==
    [title |-> "Trigger Suggestion Dialog", id |-> "editor.action.triggerSuggest"]

TIME_SYSTEM_PARAMS == <<"?start", "?end">>

\* shouldBeQuotedText of ../shared/helpers: the text holds a character that
\* is no letter, digit, underscore, dot or at sign (a dash too, if supported)
shouldBeQuotedText(text, dashSupported) ==
    \/ text \in {"my field"}
    \/ text \in {"my-policy"} /\ ~dashSupported

\* shouldBeQuotedSource of ../shared/helpers
shouldBeQuotedSource(text) == text \in {"my index"}

\* the names of the model hold no backtick, so the replace changes nothing
getSafeInsertText(text, dashSupported) ==
    IF shouldBeQuotedText(text, dashSupported) THEN Backtick \o text \o Backtick ELSE text

getQuotedText(text) ==
    IF text \in {"\"logs\""} THEN text ELSE "\"" \o text \o "\""

getSafeInsertSourceText(text) ==
    IF shouldBeQuotedSource(text) THEN getQuotedText(text) ELSE text

\* the first declaration of getFunctionSignatures(fn, { capitalize, withTypes })
FunctionDeclaration(fn) == ToUpperCase(fn.name) \o "(" \o fn.params \o ")"

getSuggestionFunctionDefinition(fn) ==
    [label |-> FunctionDeclaration(fn),
     text |-> ToUpperCase(fn.name) \o "($0)",
     asSnippet |-> TRUE,
     kind |-> "Function",
     detail |-> fn.description,
     sortText |-> IF fn.type = "agg" THEN <<"1", "A">> ELSE <<"C">>,
     command |-> TRIGGER_SUGGESTION_COMMAND]

getSuggestionBuiltinDefinition(fn) ==
    [label |-> ToUpperCase(fn.name),
     text |-> IF fn.hasArgs THEN ToUpperCase(fn.name) \o " $0" ELSE ToUpperCase(fn.name),
     asSnippet |-> fn.hasArgs,
     kind |-> "Operator",
     detail |-> fn.description,
     sortText |-> <<"D">>,
     command |-> IF fn.hasArgs THEN TRIGGER_SUGGESTION_COMMAND ELSE Undefined]

getSuggestionCommandDefinition(command) ==
    [label |-> ToUpperCase(command.name),
     text |-> IF command.hasParams THEN ToUpperCase(command.name) \o " $0"
              ELSE ToUpperCase(command.name),
     asSnippet |-> TRUE,
     kind |-> "Method",
     detail |-> command.description,
     sortText |-> <<"A">>,
     command |-> TRIGGER_SUGGESTION_COMMAND]

\* field.metadata?.description
FieldDescription(field) ==
    IF field.metadata = Undefined THEN Undefined ELSE field.metadata.description

\* the definition when the test is description !== undefined
FieldWithMetadataDefinitionAnyDescription(field) ==
    [label |-> field.name,
     text |-> getSafeInsertText(field.name, FALSE),
     kind |-> "Variable",
     detail |-> TitleCase(field.type),
     documentation |-> IF FieldDescription(field) # Undefined
                       THEN [value |-> "\n---\n\n" \o FieldDescription(field).text]
                       ELSE Undefined,
     sortText |-> IF FieldDescription(field) # Undefined THEN <<"1", "D">> ELSE <<"D">>]

FieldWithMetadataDefinition(field) ==
    [label |-> field.name,
     text |-> getSafeInsertText(field.name, FALSE),
     kind |-> "Variable",
     detail |-> TitleCase(field.type),
     documentation |-> IF Truthy(FieldDescription(field))
                       THEN [value |-> "\n---\n\n" \o FieldDescription(field).text]
                       ELSE Undefined,
     sortText |-> IF Truthy(FieldDescription(field)) THEN <<"1", "D">> ELSE <<"D">>]

\* fields.map(...)
buildFieldsDefinitionsWithMetadata(fields) ==
    [i \in 1..Len(fields) |-> FieldWithMetadataDefinition(fields[i])]

buildFieldsDefinitions(fields) ==
    [i \in 1..Len(fields) |->
        [label |-> fields[i],
         text |-> getSafeInsertText(fields[i], FALSE),
         kind |-> "Variable",
         detail |-> "Field specified by the input table",
         sortText |-> <<"D">>]]

buildVariablesDefinitions(variables) ==
    [i \in 1..Len(variables) |->
        [label |-> variables[i],
         text |-> variables[i],
         kind |-> "Variable",
         detail |-> "Variable specified by the user within the ES|QL query",
         sortText |-> <<"D">>]]

buildSourcesDefinitions(sources) ==
    [i \in 1..Len(sources) |->
        [label |-> IF sources[i].title = Undefined THEN sources[i].name
                   ELSE sources[i].title.text,
         text |-> getSafeInsertSourceText(sources[i].name),
         isSnippet |-> sources[i].isIntegration,
         command |-> IF sources[i].isIntegration THEN TRIGGER_SUGGESTION_COMMAND
                     ELSE Undefined,
         kind |-> IF sources[i].isIntegration THEN "Class" ELSE "Issue",
         detail |-> IF sources[i].isIntegration THEN "Integration" ELSE "Index",
         sortText |-> <<"A">>]]

\* detail and sortText are optional parameters
buildConstantsDefinitions(userConstants, detail, sortText) ==
    [i \in 1..Len(userConstants) |->
        [label |-> userConstants[i],
         text |-> userConstants[i],
         kind |-> "Constant",
         detail |-> IF detail = Undefined THEN "Constant" ELSE detail.text,
         sortText |-> IF sortText = Undefined THEN <<"A">> ELSE sortText.chars]]

buildNewVarDefinition(label) ==
    [label |-> label,
     text |-> label \o " =",
     kind |-> "Variable",
     detail |-> "Define a new variable",
     sortText |-> <<"1">>]

buildPoliciesDefinitions(policies) ==
    [i \in 1..Len(policies) |->
        [label |-> policies[i].name,
         text |-> getSafeInsertText(policies[i].name, TRUE),
         kind |-> "Class",
         detail |-> "Policy defined on " \o policies[i].sourceIndices,
         sortText |-> <<"D">>]]

buildMatchingFieldsDefinition(matchingField, fields) ==
    [i \in 1..Len(fields) |->
        [label |-> fields[i],
         text |-> getSafeInsertText(fields[i], FALSE),
         kind |-> "Variable",
         detail |-> "Use to match on " \o matchingField \o " on the policy",
         sortText |-> <<"D">>]]

buildOptionDefinition(option, isAssignType) ==
    LET completeItem ==
            [label |-> ToUpperCase(option.name),
             text |-> ToUpperCase(option.name),
             kind |-> "Reference",
             detail |-> option.description,
             sortText |-> <<"1">>,
             asSnippet |-> Undefined,
             command |-> Undefined]
    IN  IF isAssignType \/ option.hasParams
        THEN [completeItem EXCEPT
                 !.text = IF isAssignType THEN ToUpperCase(option.name) \o " = $0"
                          ELSE ToUpperCase(option.name) \o " $0",
                 !.asSnippet = TRUE,
                 !.command = TRIGGER_SUGGESTION_COMMAND]
        ELSE completeItem

buildSettingDefinitions(setting) ==
    [i \in 1..Len(setting.values) |->
        [label |-> setting.prefix \o setting.values[i].name,
         text |-> setting.prefix \o setting.values[i].name \o ":$0",
         asSnippet |-> TRUE,
         kind |-> "Reference",
         detail |-> IF Truthy(setting.values[i].description)
                    THEN setting.description \o " - " \o setting.values[i].description.text
                    ELSE setting.description,
         sortText |-> <<"D">>,
         command |-> TRIGGER_SUGGESTION_COMMAND]]

buildNoPoliciesAvailableDefinition ==
    [label |-> "No available policy",
     text |-> "",
     kind |-> "Issue",
     detail |-> "Click to create",
     sortText |-> <<"D">>,
     command |-> [id |-> "esql.policies.create", title |-> "Click to create"]]

getDateLiterals ==
    buildConstantsDefinitions(TIME_SYSTEM_PARAMS, Text("Named parameter"),
                              [chars |-> <<"1", "A">>])
        \o <<[label |-> "Choose from the time picker",
              text |-> "",
              kind |-> "Issue",
              detail |-> "Click to choose",
              sortText |-> <<"1", "A">>,
              command |-> [id |-> "esql.timepicker.choose", title |-> "Click to choose"]]>>

(***************************************************************************)
(* The inputs of the builders.                                             *)
(***************************************************************************)
MaxSuggestions == 3
MaxFields == 2

FunctionDefinitions ==
    {[name |-> "avg", type |-> "agg", params |-> "field", description |-> "Average"],
     [name |-> "abs", type |-> "eval", params |-> "number", description |-> "Absolute value"],
     [name |-> "bucket", type |-> "grouping", params |-> "field", description |-> "Bucket"]}

BuiltinDefinitions ==
    {[name |-> "and", hasArgs |-> TRUE, description |-> "and"],
     [name |-> "is null", hasArgs |-> FALSE, description |-> "is null"]}

CommandDefinitions ==
    {[name |-> "limit", hasParams |-> TRUE, description |-> "Limits the rows"],
     [name |-> "show", hasParams |-> FALSE, description |-> "Shows information"]}

FieldMetadata ==
    {Undefined, [description |-> Undefined], [description |-> Text("")],
     [description |-> Text("Host name")]}

RealFields ==
    {[name |-> "host.name", type |-> "keyword", metadata |-> m] : m \in FieldMetadata}
        \cup {[name |-> "my field", type |-> "long", metadata |-> Undefined]}

SeqsUpTo(S, n) == UNION {[1..k -> S] : k \in 1..n}

SourceDefinitions ==
    {[name |-> "logs", isIntegration |-> FALSE, title |-> Undefined],
     [name |-> "my index", isIntegration |-> TRUE, title |-> Text("My integration")]}

OptionDefinitions ==
    {[name |-> "by", hasParams |-> TRUE, description |-> "By"],
     [name |-> "metadata", hasParams |-> FALSE, description |-> "Metadata"]}

SettingDefinitions ==
    {[prefix |-> "_", description |-> "Cluster mode",
      values |-> <<[name |-> "any", description |-> Text("Any")]>>],
     [prefix |-> "", description |-> "Cluster mode",
      values |-> <<[name |-> "remote", description |-> Undefined]>>]}

PolicyDefinitions ==
    {[name |-> "my-policy", sourceIndices |-> "index1"],
     [name |-> "policy", sourceIndices |-> "index1, index2"]}

(***************************************************************************)
(* The builders as a state machine: a caller assembles a suggestion list   *)
(* from the results of the builders.  Each entry keeps the builder it came *)
(* from and whether it was built for an aggregation function.              *)
(***************************************************************************)
SuggestFrame == UNCHANGED <<schemaVars, templateVars, apiVars, dashboardVars, searchVars, archiverVars, fieldsVars, queryVars>>

Built(builder, aggFunction, definitions) ==
    [i \in 1..Len(definitions) |->
        [builder |-> builder, aggFunction |-> aggFunction, suggestion |-> definitions[i]]]

\* the room left in the list
Room == MaxSuggestions - Len(suggestions)

Push(entries) ==
    /\ Len(entries) <= Room
    /\ suggestions' = suggestions \o entries

SuggestFunction ==
    /\ Room > 0
    /\ \E fn \in FunctionDefinitions :
           /\ Push(Built("getSuggestionFunctionDefinition", fn.type = "agg",
                         <<getSuggestionFunctionDefinition(fn)>>))
           /\ SuggestFrame

SuggestBuiltin ==
    /\ Room > 0
    /\ \E fn \in BuiltinDefinitions :
           /\ Push(Built("getSuggestionBuiltinDefinition", FALSE,
                         <<getSuggestionBuiltinDefinition(fn)>>))
           /\ SuggestFrame

SuggestCommand ==
    /\ Room > 0
    /\ \E command \in CommandDefinitions :
           /\ Push(Built("getSuggestionCommandDefinition", FALSE,
                         <<getSuggestionCommandDefinition(command)>>))
           /\ SuggestFrame

SuggestFieldsWithMetadata ==
    /\ Room > 0
    /\ \E fields \in SeqsUpTo(RealFields, IF Room < MaxFields THEN Room ELSE MaxFields) :
           /\ Push(Built("buildFieldsDefinitionsWithMetadata", FALSE,
                         buildFieldsDefinitionsWithMetadata(fields)))
           /\ SuggestFrame

SuggestFields ==
    /\ Room > 0
    /\ \E field \in {"bytes", "my field"} :
           /\ Push(Built("buildFieldsDefinitions", FALSE, buildFieldsDefinitions(<<field>>)))
           /\ SuggestFrame

SuggestVariables ==
    /\ Room > 0
    /\ /\ Push(Built("buildVariablesDefinitions", FALSE, buildVariablesDefinitions(<<"var0">>)))
       /\ SuggestFrame

SuggestSources ==
    /\ Room > 0
    /\ \E source \in SourceDefinitions :
           /\ Push(Built("buildSourcesDefinitions", FALSE, buildSourcesDefinitions(<<source>>)))
           /\ SuggestFrame

SuggestConstants ==
    /\ Room > 0
    /\ \E detail \in {Undefined, Text("")} :
           /\ Push(Built("buildConstantsDefinitions", FALSE,
                         buildConstantsDefinitions(<<"10">>, detail, Undefined)))
           /\ SuggestFrame

SuggestNewVar ==
    /\ Room > 0
    /\ /\ Push(Built("buildNewVarDefinition", FALSE, <<buildNewVarDefinition("var0")>>))
       /\ SuggestFrame

SuggestPolicies ==
    /\ Room > 0
    /\ \E policy \in PolicyDefinitions :
           /\ Push(Built("buildPoliciesDefinitions", FALSE, buildPoliciesDefinitions(<<policy>>)))
           /\ SuggestFrame

SuggestMatchingFields ==
    /\ Room > 0
    /\ /\ Push(Built("buildMatchingFieldsDefinition", FALSE,
                     buildMatchingFieldsDefinition("host.name", <<"my field">>)))
       /\ SuggestFrame

SuggestOption ==
    /\ Room > 0
    /\ \E option \in OptionDefinitions, isAssignType \in BOOLEAN :
           /\ Push(Built("buildOptionDefinition", FALSE,
                         <<buildOptionDefinition(option, isAssignType)>>))
           /\ SuggestFrame

SuggestSettings ==
    /\ Room > 0
    /\ \E setting \in SettingDefinitions :
           /\ Push(Built("buildSettingDefinitions", FALSE, buildSettingDefinitions(setting)))
           /\ SuggestFrame

SuggestNoPolicies ==
    /\ Room > 0
    /\ /\ Push(Built("buildNoPoliciesAvailableDefinition", FALSE,
                     <<buildNoPoliciesAvailableDefinition>>))
       /\ SuggestFrame

SuggestDateLiterals ==
    /\ Room > 0
    /\ /\ Push(Built("getDateLiterals", FALSE, getDateLiterals))
       /\ SuggestFrame

(***************************************************************************)
(* TemplateSelector (cases, create form).                                  *)
(***************************************************************************)
MaxTemplates == 2
MaxEvents == 2

TemplateKeys == {"key_1", "key_2"}
EventValues == TemplateKeys \cup {"key_3"}
CaseFieldsValues == {[title |-> "Case A"], [title |-> "Case B"]}

Templates == [key : TemplateKeys, name : {"Template"}, caseFields : CaseFieldsValues]

\* templates.map((template) => ({ text: template.name, value: template.key }))
options ==
    [i \in 1..Len(templates) |-> [text |-> templates[i].name, value |-> templates[i].key]]

\* the last element with the key, where Array.prototype.find returns the first
RECURSIVE FindLastTemplate(_, _)
FindLastTemplate(list, key) ==
    IF Len(list) = 0 THEN Undefined
    ELSE IF list[Len(list)].key = key THEN list[Len(list)]
    ELSE FindLastTemplate(SubSeq(list, 1, Len(list) - 1), key)

\* templates.find((template) => template.key === e.target.value)
RECURSIVE FindTemplate(_, _)
FindTemplate(list, key) ==
    IF Len(list) = 0 THEN Undefined
    ELSE IF Head(list).key = key THEN Head(list)
    ELSE FindTemplate(Tail(list), key)

TemplateFrame == UNCHANGED <<schemaVars, suggestVars, apiVars, dashboardVars, searchVars, archiverVars, fieldsVars, queryVars>>

\* the parent renders the component with another `templates` prop
Render ==
    /\ \E next \in StringsUpTo(Templates, MaxTemplates) :
           /\ next # templates
           /\ templates' = next
    /\ UNCHANGED <<selectedTemplate, onTemplateChangeCalls, changeEvents>>
    /\ TemplateFrame

\* onChange of the select, with e.target.value = value
OnChange ==
    /\ Len(changeEvents) < MaxEvents
    /\ \E value \in EventValues :
           LET selectedTemplated == FindTemplate(templates, value)
           IN  /\ changeEvents' = Append(changeEvents, value)
               /\ IF selectedTemplated # Undefined
                  THEN /\ selectedTemplate' = Text(selectedTemplated.key)
                       /\ onTemplateChangeCalls' =
                              Append(onTemplateChangeCalls, selectedTemplated.caseFields)
                  ELSE UNCHANGED <<selectedTemplate, onTemplateChangeCalls>>
    /\ UNCHANGED templates
    /\ TemplateFrame

(***************************************************************************)
(* DeleteExceptionList: DELETE /api/exception_lists.  The OpenAPI document *)
(* declares the parameters and the responses; the route handler is         *)
(* modelled from what the document says of it.                             *)
(***************************************************************************)
\* ExceptionNamespaceType
ExceptionNamespaceType == {"single", "agnostic"}

\* a declared default other than the document's
NamespaceTypeDefaultAgnostic == Text("agnostic")

\* namespace_type: default: single
NamespaceTypeDefault == Text("single")

\* a declaration whose 404 response is a PlatformErrorResponse
DeclaredResponsesPlatform404(status) ==
    CASE status = 200 -> {"ExceptionList"}
      [] status = 400 -> {"PlatformErrorResponse", "SiemErrorResponse"}
      [] status = 401 -> {"PlatformErrorResponse"}
      [] status = 403 -> {"PlatformErrorResponse"}
      [] status = 404 -> {"PlatformErrorResponse"}
      [] status = 500 -> {"SiemErrorResponse"}
      [] OTHER -> {}

\* responses: the schemas declared for a status code
DeclaredResponses(status) ==
    CASE status = 200 -> {"ExceptionList"}
      [] status = 400 -> {"PlatformErrorResponse", "SiemErrorResponse"}
      [] status = 401 -> {"PlatformErrorResponse"}
      [] status = 403 -> {"PlatformErrorResponse"}
      [] status = 404 -> {"SiemErrorResponse"}
      [] status = 500 -> {"SiemErrorResponse"}
      [] OTHER -> {}

ExceptionLists ==
    {[id |-> "1", list_id |-> "a", namespace_type |-> "single"],
     [id |-> "2", list_id |-> "a", namespace_type |-> "agnostic"],
     [id |-> "3", list_id |-> "b", namespace_type |-> "single"]}

Queries ==
    [id : {Undefined, Text("1"), Text("2")},
     list_id : {Undefined, Text("a"), Text("b")},
     namespace_type : {Undefined, Text("single"), Text("agnostic"), Text("bogus")}]

Requests ==
    [kind : {"delete"}, query : Queries,
     auth : {"ok", "unauthenticated", "forbidden"}, fault : BOOLEAN]

Response(status, schema, body) == [status |-> status, schema |-> schema, body |-> body]

\* the list a query names: by id when given, else by list_id, in the namespace
FindExceptionList(lists, id, list_id, namespace_type) ==
    {l \in lists :
        /\ l.namespace_type = namespace_type.text
        /\ IF id # Undefined THEN l.id = id.text
           ELSE list_id # Undefined /\ l.list_id = list_id.text}

\* a handler that deletes some list of the namespace when neither id nor
\* list_id is given
DeleteAnyWhenUnspecified(req, lists) ==
    LET namespace_type == NullishCoalesce(req.query.namespace_type, NamespaceTypeDefault)
        found == IF req.query.id = Undefined /\ req.query.list_id = Undefined
                 THEN {l \in lists : l.namespace_type = namespace_type.text}
                 ELSE FindExceptionList(lists, req.query.id, req.query.list_id,
                                        namespace_type)
    IN  IF found = {} THEN [response |-> Response(404, "SiemErrorResponse", Undefined),
                            store |-> lists]
        ELSE LET list == CHOOSE l \in found : TRUE
             IN  [response |-> Response(200, "ExceptionList", list),
                  store |-> lists \ {list}]

\* the route handler: the response and the store it leaves
DeleteExceptionList(req, lists) ==
    LET namespace_type == NullishCoalesce(req.query.namespace_type, NamespaceTypeDefault)
        found == FindExceptionList(lists, req.query.id, req.query.list_id, namespace_type)
        Reply(status, schema) ==
            [response |-> Response(status, schema, Undefined), store |-> lists]
    IN  IF req.auth = "unauthenticated" THEN Reply(401, "PlatformErrorResponse")
        ELSE IF req.auth = "forbidden" THEN Reply(403, "PlatformErrorResponse")
        ELSE IF namespace_type.text \notin ExceptionNamespaceType
             THEN Reply(400, "PlatformErrorResponse")
        ELSE IF req.query.id = Undefined /\ req.query.list_id = Undefined
             THEN Reply(400, "SiemErrorResponse")
        ELSE IF req.fault THEN Reply(500, "SiemErrorResponse")
        ELSE IF found = {} THEN Reply(404, "SiemErrorResponse")
        ELSE LET list == CHOOSE l \in found : TRUE
             IN  [response |-> Response(200, "ExceptionList", list),
                  store |-> lists \ {list}]

ApiFrame == UNCHANGED <<schemaVars, suggestVars, templateVars, dashboardVars, searchVars, archiverVars, fieldsVars, queryVars>>

\* a client sends DELETE /api/exception_lists
Delete ==
    /\ \E req \in Requests :
           /\ request' = req
           /\ storeBefore' = store
           /\ response' = DeleteExceptionList(req, store).response
           /\ store' = DeleteExceptionList(req, store).store
    /\ ApiFrame

(***************************************************************************)
(* Dashboard options list control, as the functional test drives it.  The  *)
(* control is modelled from what the test expects of it.                   *)
(***************************************************************************)
\* the sort and the search technique of a control that sets none
DefaultSort == [by |-> "_count", direction |-> "desc"]
DefaultSearchTechnique == Text("prefix")

SortValues == [by : {"_count", "_key"}, direction : {"asc", "desc"}]
SearchTechniques == {Text("prefix"), Text("wildcard"), Text("exact")}

\* the control as createControl leaves it: neither setting is set
CreatedControl == [sort |-> Undefined, searchTechnique |-> Undefined]

\* the settings in effect
EffectiveSettings(state) ==
    [sort |-> NullishCoalesce(state.sort, DefaultSort),
     searchTechnique |-> NullishCoalesce(state.searchTechnique, DefaultSearchTechnique)]

\* a comparison of the settings as they are stored
HasUnsavedChangesRaw(current, saved) == current # saved

\* the dashboard's comparison of the control with its last saved state
HasUnsavedChanges(current, saved) == EffectiveSettings(current) # EffectiveSettings(saved)

DashboardFrame == UNCHANGED <<schemaVars, suggestVars, templateVars, apiVars, searchVars, archiverVars, fieldsVars, queryVars>>

\* dashboardControls.optionsListPopoverSetSort({ by, direction })
OptionsListPopoverSetSort ==
    /\ \E sort \in SortValues :
           /\ currentState' = [currentState EXCEPT !.sort = sort]
           /\ unsavedBadge' = HasUnsavedChanges(currentState', savedState)
    /\ UNCHANGED savedState
    /\ DashboardFrame

\* editExistingControl, optionsListSetAdditionalSettings({ searchTechnique }),
\* controlEditorSave
OptionsListSetAdditionalSettings ==
    /\ \E searchTechnique \in SearchTechniques :
           /\ currentState' = [currentState EXCEPT !.searchTechnique = searchTechnique]
           /\ unsavedBadge' = HasUnsavedChanges(currentState', savedState)
    /\ UNCHANGED savedState
    /\ DashboardFrame

\* dashboard.clickQuickSave()
ClickQuickSave ==
    /\ savedState' = currentState
    /\ unsavedBadge' = HasUnsavedChanges(currentState, savedState')
    /\ UNCHANGED currentState
    /\ DashboardFrame

(***************************************************************************)
(* The search of the options list control, as the functional test drives   *)
(* it: the popover offers the suggestions of the control's field that the  *)
(* search string selects.  Modelled from what the test expects.            *)
(***************************************************************************)
MaxSearchLen == 4

\* keys of OPTIONS_LIST_ANIMAL_SOUND_SUGGESTIONS, the values of sound.keyword
SoundSuggestions ==
    {<<"r", "u", "f", "f">>, <<"g", "r", "r">>, <<"g", "r", "r", "r">>,
     <<"b", "a", "r", "k">>, <<"m", "e", "o", "w">>}

\* values of the numeric field weightLbs, as the popover shows them
WeightSuggestions == {<<"4", "5">>, <<"5">>, <<"5", "5">>}

SearchChars == {"r", "R", "u", "f", "F", "4", "5"}

ControlFields == {"sound.keyword", "weightLbs"}

ToLowerCaseChar(c) == CASE c = "R" -> "r" [] c = "F" -> "f" [] OTHER -> c

ToLowerCaseString(s) == [i \in 1..Len(s) |-> ToLowerCaseChar(s[i])]

RECURSIVE StartsWith(_, _)
StartsWith(s, q) ==
    IF Len(q) = 0 THEN TRUE
    ELSE IF Len(s) = 0 THEN FALSE
    ELSE Head(s) = Head(q) /\ StartsWith(Tail(s), Tail(q))

RECURSIVE Includes(_, _)
Includes(s, q) ==
    \/ StartsWith(s, q)
    \/ Len(s) > 0 /\ Includes(Tail(s), q)

\* a match that compares the characters as they are typed
MatchesSearchCaseSensitive(searchTechnique, option, searchString) ==
    CASE searchTechnique = "prefix" -> StartsWith(option, searchString)
      [] searchTechnique = "wildcard" -> Includes(option, searchString)
      [] searchTechnique = "exact" -> option = searchString

\* whether a keyword option matches the search string under the technique
MatchesSearch(searchTechnique, option, searchString) ==
    LET o == ToLowerCaseString(option)
        q == ToLowerCaseString(searchString)
    IN  CASE searchTechnique = "prefix" -> StartsWith(o, q)
          [] searchTechnique = "wildcard" -> Includes(o, q)
          [] searchTechnique = "exact" -> o = q

\* the options the popover offers for the control
Suggestions(control) ==
    IF control.fieldName = "weightLbs"
    THEN IF Len(control.searchString) = 0 THEN WeightSuggestions
         ELSE {w \in WeightSuggestions : w = control.searchString}
    ELSE IF Len(control.searchString) = 0 THEN SoundSuggestions
         ELSE {s \in SoundSuggestions :
                  MatchesSearch(control.searchTechnique, s, control.searchString)}

SearchFrame == UNCHANGED <<schemaVars, suggestVars, templateVars, apiVars, dashboardVars, archiverVars, fieldsVars, queryVars>>

\* editExistingControl, controlsEditorSetfield(fieldName), controlEditorSave:
\* the popover is closed and its search is gone
ControlsEditorSetField ==
    /\ \E fieldName \in ControlFields :
           /\ fieldName # optionsList.fieldName
           /\ optionsList' = [optionsList EXCEPT !.fieldName = fieldName,
                                                 !.searchString = <<>>]
    /\ availableOptions' = Suggestions(optionsList')
    /\ SearchFrame

\* editExistingControl, optionsListSetAdditionalSettings({ searchTechnique }),
\* controlEditorSave
ControlEditorSetSearchTechnique ==
    /\ \E searchTechnique \in {"prefix", "wildcard", "exact"} :
           /\ searchTechnique # optionsList.searchTechnique
           /\ optionsList' = [optionsList EXCEPT !.searchTechnique = searchTechnique,
                                                 !.searchString = <<>>]
    /\ availableOptions' = Suggestions(optionsList')
    /\ SearchFrame

\* optionsListPopoverSearchForOption: one more character is typed in the
\* search box
OptionsListPopoverSearchForOption ==
    /\ Len(optionsList.searchString) < MaxSearchLen
    /\ \E c \in SearchChars :
           optionsList' = [optionsList EXCEPT !.searchString = Append(@, c)]
    /\ availableOptions' = Suggestions(optionsList')
    /\ SearchFrame

\* optionsListPopoverClearSearch
OptionsListPopoverClearSearch ==
    /\ Len(optionsList.searchString) > 0
    /\ optionsList' = [optionsList EXCEPT !.searchString = <<>>]
    /\ availableOptions' = Suggestions(optionsList')
    /\ SearchFrame

(***************************************************************************)
(* EsArchiverProvider: the handlers it registers with the lifecycle, and   *)
(* the test run around them (beforeTests, the suites' before and after     *)
(* hooks, cleanup).  A call of esArchiver.load or esArchiver.unload is     *)
(* started, stays in progress, and is settled by a later step.             *)
(***************************************************************************)
MaxArchives == 2

\* values of config.get('testData.esArchives')
ConfigArchives == {"archives/a", "archives/b"}

ArchiveLists == UNION {[1..n -> ConfigArchives] : n \in 0..MaxArchives}

Suites == {"authentications", "keyword"}

\* the archive a suite loads in its before hook and unloads in its after hook
SuiteArchive(suite) ==
    IF suite = "authentications"
    THEN "x-pack/test/functional/es_archives/auditbeat/hosts"
    ELSE "x-pack/test/functional/es_archives/rule_keyword_family/const_keyword"

Call(op, archive, index) == [op |-> op, archive |-> archive, index |-> index]

Logged(call, event) ==
    [op |-> call.op, archive |-> call.archive, index |-> call.index, event |-> event]

\* lifecycle.<phase>.add(handler)
LifecycleAdd(lc, phase, handler) == [lc EXCEPT ![phase] = Append(@, handler)]

\* the loop goes on to its next call without waiting for the pending one
NotAwaited(pending) == TRUE

\* `await`: the loop goes on only when the awaited call has resolved
Awaited(pending) == pending = {}

\* for (const archive of esArchives), taken from the end
ForOfReversed(archives, index) == archives[Len(archives) + 1 - index]

\* for (const archive of esArchives): the archive of the index-th iteration
ForOf(archives, index) == archives[index]

ArchiverFrame == UNCHANGED <<schemaVars, suggestVars, templateVars, apiVars, dashboardVars, searchVars, fieldsVars, queryVars>>

\* EsArchiverProvider({ getService })
EsArchiverProvider ==
    /\ archiverPc.phase = "provider"
    /\ lifecycle' = IF Len(esArchives) # 0
                    THEN LifecycleAdd(LifecycleAdd(lifecycle, "beforeTests", "load"),
                                      "cleanup", "unload")
                    ELSE lifecycle
    /\ archiverPc' = [archiverPc EXCEPT !.phase = "provided"]
    /\ UNCHANGED <<esArchives, inProgress, archiverLog>>
    /\ ArchiverFrame

\* lifecycle.beforeTests.trigger(): the registered handler is called
BeforeTestsTrigger ==
    /\ archiverPc.phase = "provided"
    /\ archiverPc' = [archiverPc EXCEPT
                         !.phase = IF Len(lifecycle.beforeTests) = 0
                                   THEN "tests" ELSE "beforeTests",
                         !.index = 1]
    /\ UNCHANGED <<esArchives, lifecycle, inProgress, archiverLog>>
    /\ ArchiverFrame

\* beforeTests handler: esArchiver.load(archive) is called
LoadStart ==
    /\ archiverPc.phase = "beforeTests"
    /\ archiverPc.index <= Len(esArchives)
    /\ Awaited(inProgress)
    /\ LET call == Call("load", ForOf(esArchives, archiverPc.index), archiverPc.index)
       IN  /\ inProgress' = inProgress \cup {call}
           /\ archiverLog' = Append(archiverLog, Logged(call, "start"))
    /\ archiverPc' = [archiverPc EXCEPT !.index = @ + 1]
    /\ UNCHANGED <<esArchives, lifecycle>>
    /\ ArchiverFrame

\* beforeTests handler: the awaited load resolves
LoadResolve ==
    /\ archiverPc.phase = "beforeTests"
    /\ \E call \in inProgress :
           /\ inProgress' = inProgress \ {call}
           /\ archiverLog' = Append(archiverLog, Logged(call, "done"))
    /\ UNCHANGED <<esArchives, lifecycle, archiverPc>>
    /\ ArchiverFrame

\* beforeTests handler: the awaited load rejects, the handler throws
LoadReject ==
    /\ archiverPc.phase = "beforeTests"
    /\ \E call \in inProgress :
           /\ inProgress' = inProgress \ {call}
           /\ archiverLog' = Append(archiverLog, Logged(call, "failed"))
    /\ archiverPc' = [archiverPc EXCEPT !.phase = "beforeTestsFailed"]
    /\ UNCHANGED <<esArchives, lifecycle>>
    /\ ArchiverFrame

\* beforeTests handler: the loop is over, the handler's promise resolves
BeforeTestsReturn ==
    /\ archiverPc.phase = "beforeTests"
    /\ archiverPc.index > Len(esArchives)
    /\ inProgress = {}
    /\ archiverPc' = [archiverPc EXCEPT !.phase = "tests"]
    /\ UNCHANGED <<esArchives, lifecycle, inProgress, archiverLog>>
    /\ ArchiverFrame

\* a suite's before hook: await esArchiver.load(<the suite's archive>)
SuiteBefore ==
    /\ archiverPc.phase = "tests"
    /\ \E suite \in Suites \ archiverPc.ran :
           LET call == Call("load", SuiteArchive(suite), 0)
           IN  /\ archiverPc' = [archiverPc EXCEPT !.phase = "suiteBefore",
                                                   !.suite = suite]
               /\ inProgress' = {call}
               /\ archiverLog' = Append(archiverLog, Logged(call, "start"))
    /\ UNCHANGED <<esArchives, lifecycle>>
    /\ ArchiverFrame

\* the suite's load settles; its tests run, or are skipped when it failed
SuiteBeforeSettled ==
    /\ archiverPc.phase = "suiteBefore"
    /\ \E call \in inProgress, event \in {"done", "failed"} :
           /\ inProgress' = inProgress \ {call}
           /\ archiverLog' = Append(archiverLog, Logged(call, event))
    /\ archiverPc' = [archiverPc EXCEPT !.phase = "suiteTests"]
    /\ UNCHANGED <<esArchives, lifecycle>>
    /\ ArchiverFrame

\* the suite's after hook: await esArchiver.unload(<the suite's archive>)
SuiteAfter ==
    /\ archiverPc.phase = "suiteTests"
    /\ LET call == Call("unload", SuiteArchive(archiverPc.suite), 0)
       IN  /\ inProgress' = {call}
           /\ archiverLog' = Append(archiverLog, Logged(call, "start"))
    /\ archiverPc' = [archiverPc EXCEPT !.phase = "suiteAfter"]
    /\ UNCHANGED <<esArchives, lifecycle>>
    /\ ArchiverFrame

\* the suite's unload settles; the suite is over
SuiteAfterSettled ==
    /\ archiverPc.phase = "suiteAfter"
    /\ \E call \in inProgress, event \in {"done", "failed"} :
           /\ inProgress' = inProgress \ {call}
           /\ archiverLog' = Append(archiverLog, Logged(call, event))
    /\ archiverPc' = [archiverPc EXCEPT !.phase = "tests",
                                        !.ran = @ \cup {archiverPc.suite},
                                        !.suite = ""]
    /\ UNCHANGED <<esArchives, lifecycle>>
    /\ ArchiverFrame

\* lifecycle.cleanup.trigger(), after the tests or after a failed beforeTests
CleanupTrigger ==
    /\ archiverPc.phase \in {"tests", "beforeTestsFailed"}
    /\ archiverPc' = [archiverPc EXCEPT
                         !.phase = IF Len(lifecycle.cleanup) = 0
                                   THEN "done" ELSE "cleanup",
                         !.index = 1]
    /\ UNCHANGED <<esArchives, lifecycle, inProgress, archiverLog>>
    /\ ArchiverFrame

\* cleanup handler: esArchiver.unload(archive) is called
UnloadStart ==
    /\ archiverPc.phase = "cleanup"
    /\ archiverPc.index <= Len(esArchives)
    /\ Awaited(inProgress)
    /\ LET call == Call("unload", ForOf(esArchives, archiverPc.index), archiverPc.index)
       IN  /\ inProgress' = inProgress \cup {call}
           /\ archiverLog' = Append(archiverLog, Logged(call, "start"))
    /\ archiverPc' = [archiverPc EXCEPT !.index = @ + 1]
    /\ UNCHANGED <<esArchives, lifecycle>>
    /\ ArchiverFrame

\* cleanup handler: the awaited unload resolves
UnloadResolve ==
    /\ archiverPc.phase = "cleanup"
    /\ \E call \in inProgress :
           /\ inProgress' = inProgress \ {call}
           /\ archiverLog' = Append(archiverLog, Logged(call, "done"))
    /\ UNCHANGED <<esArchives, lifecycle, archiverPc>>
    /\ ArchiverFrame

\* cleanup handler: the awaited unload rejects, the handler throws
UnloadReject ==
    /\ archiverPc.phase = "cleanup"
    /\ \E call \in inProgress :
           /\ inProgress' = inProgress \ {call}
           /\ archiverLog' = Append(archiverLog, Logged(call, "failed"))
    /\ archiverPc' = [archiverPc EXCEPT !.phase = "cleanupFailed"]
    /\ UNCHANGED <<esArchives, lifecycle>>
    /\ ArchiverFrame

\* cleanup handler: the loop is over, the handler's promise resolves
CleanupReturn ==
    /\ archiverPc.phase = "cleanup"
    /\ archiverPc.index > Len(esArchives)
    /\ inProgress = {}
    /\ archiverPc' = [archiverPc EXCEPT !.phase = "done"]
    /\ UNCHANGED <<esArchives, lifecycle, inProgress, archiverLog>>
    /\ ArchiverFrame

(***************************************************************************)
(* buildFieldsDefinitionsWithMetadata as a function of its argument: a     *)
(* list of fields is drawn, the builder is applied to it.                  *)
(***************************************************************************)
MaxFieldList == 3

FieldLists == {<<>>} \cup SeqsUpTo(RealFields, MaxFieldList)

FieldsFrame == UNCHANGED <<schemaVars, suggestVars, templateVars, apiVars, dashboardVars, searchVars, archiverVars, queryVars>>

\* buildFieldsDefinitionsWithMetadata(fields)
BuildFieldsDefinitionsWithMetadata ==
    /\ ~fieldDefinitions.returned
    /\ fieldDefinitions' =
           [returned |-> TRUE,
            value |-> buildFieldsDefinitionsWithMetadata(fieldsArgument)]
    /\ UNCHANGED fieldsArgument
    /\ FieldsFrame

(***************************************************************************)
(* buildQuery of the user authentications search strategy.  A query is a   *)
(* JSON value: objects, arrays and leaves carry their type, an object's    *)
(* fields are a function on its keys.                                      *)
(***************************************************************************)
MaxQueryLimit == 2

Bool(b) == [type |-> "boolean", bool |-> b]
Arr(items) == [type |-> "array", items |-> items]
Obj(fields) == [type |-> "object", fields |-> fields]

\* merge of lodash/fp: a new value, objects merged key by key in depth
RECURSIVE merge(_, _)
merge(object, source) ==
    IF object.type = "object" /\ source.type = "object"
    THEN Obj([k \in DOMAIN object.fields \cup DOMAIN source.fields |->
                 IF k \notin DOMAIN source.fields THEN object.fields[k]
                 ELSE IF k \notin DOMAIN object.fields THEN source.fields[k]
                 ELSE merge(object.fields[k], source.fields[k])])
    ELSE source

auditdMap ==
    ("latest" :> "@timestamp") @@ ("from" :> "source.ip")
        @@ ("to.id" :> "host.id") @@ ("to.name" :> "host.name")

\* the helper is imported; its result is kept as the application itself
reduceFields(fields, fieldMap) ==
    [type |-> "reduceFields", fields |-> fields, fieldMap |-> fieldMap]

\* the helper is imported; its result is kept as the application itself
createQueryFilterClauses(filterQuery) ==
    [type |-> "createQueryFilterClauses", filterQuery |-> filterQuery]

Spread(array) == [type |-> "spread", of |-> array]

\* const dslQuery = { ... }
DslQuery(requestOptions) ==
    LET from == requestOptions.timerange.from
        to == requestOptions.timerange.to
        limit == requestOptions.pagination.limit
        esFields == reduceFields(requestOptions.fields, auditdMap)
        filter ==
            Arr(<<Spread(createQueryFilterClauses(requestOptions.filterQuery)),
                  Obj([term |-> Obj("event.category" :> Text("user-login"))]),
                  Obj([term |-> Obj("process.exe" :> Text("/usr/sbin/sshd"))]),
                  Obj([terms |-> Obj("event.type" :>
                                        Arr(<<Text("user_login"), Text("user_start")>>))]),
                  Obj([range |-> Obj(requestOptions.sourceConfiguration.fields.timestamp :>
                                        Obj([gte |-> Text(from), lte |-> Text(to)]))])>>)
        agg == [user_count |->
                    Obj([cardinality |-> Obj([field |-> Text("auditd.data.acct")])])]
        group_by_users ==
            Obj([composite |->
                     Obj([size |-> Num(limit + 1),
                          sources |-> Arr(<<Obj([user_uid |->
                              Obj([terms |-> Obj([field |-> Text("auditd.data.acct")])])])>>)]),
                 aggs |->
                     Obj([failures |->
                              Obj([filter |-> Obj([term |->
                                  Obj("auditd.result" :> Text("fail"))])]),
                          successes |->
                              Obj([filter |-> Obj([term |->
                                  Obj("auditd.result" :> Text("success"))])]),
                          authorization |->
                              Obj([top_hits |->
                                  Obj([size |-> Num(1),
                                       _source |-> esFields,
                                       sort |-> Arr(<<Obj("@timestamp" :>
                                           Obj([order |-> Text("desc")]))>>)])])])])
    IN  Obj([allowNoIndices |-> Bool(TRUE),
             index |-> Text(requestOptions.sourceConfiguration.auditbeatAlias),
             ignoreUnavailable |-> Bool(TRUE),
             body |-> Obj([aggregations |-> Obj(agg @@ [group_by_users |-> group_by_users]),
                           query |-> Obj([bool |-> Obj([filter |-> filter])])]),
             size |-> Num(0),
             track_total_hits |-> Bool(FALSE)])

\* { body: { aggregations: { group_by_users: { composite: { after: { user_uid: cursor } } } } } }
AfterCursor(cursor) ==
    Obj([body |-> Obj([aggregations |-> Obj([group_by_users |->
        Obj([composite |-> Obj([after |-> Obj([user_uid |-> cursor])])])])])])

\* buildQuery whose test is cursor !== undefined
buildQueryAnyCursor(requestOptions) ==
    IF requestOptions.pagination.cursor # Undefined
    THEN merge(DslQuery(requestOptions), AfterCursor(requestOptions.pagination.cursor))
    ELSE DslQuery(requestOptions)

buildQuery(requestOptions) ==
    IF Truthy(requestOptions.pagination.cursor)
    THEN merge(DslQuery(requestOptions), AfterCursor(requestOptions.pagination.cursor))
    ELSE DslQuery(requestOptions)

\* values of AuthorizationsRequestOptions
QueryOptions ==
    [timerange : {[from |-> "2000-01-01T00:00:00.000Z", to |-> "3000-01-01T00:00:00.000Z"]},
     pagination : [limit : 1..MaxQueryLimit,
                   cursor : {Undefined, Null, Text(""), Text("root"), Text("zeek")}],
     fields : {<<>>, <<"latest", "from">>, <<"to.id", "user.name">>},
     filterQuery : {Undefined, Text(""), Text("{match_all:{}}")},
     sourceConfiguration :
         {[fields |-> [timestamp |-> ts], auditbeatAlias |-> "auditbeat-*"] :
              ts \in {"@timestamp", "event.ingested"}}]

QueryFrame == UNCHANGED <<schemaVars, suggestVars, templateVars, apiVars, dashboardVars, searchVars, archiverVars, fieldsVars>>

\* const query = buildQuery(options)
BuildQuery ==
    /\ ~queryCall.called
    /\ queryCall' = [called |-> TRUE,
                     options |-> queryOptions,
                     result |-> buildQuery(queryOptions)]
    /\ UNCHANGED queryOptions
    /\ QueryFrame

(***************************************************************************)
(* Specifications: one per piece, the other pieces idle.                   *)
(***************************************************************************)
SchemaIdle == schemaInput = NoInput /\ schemaResult = NotParsed
SuggestIdle == suggestions = <<>>
TemplateIdle ==
    /\ templates = <<>>
    /\ selectedTemplate = Undefined
    /\ onTemplateChangeCalls = <<>>
    /\ changeEvents = <<>>
ApiIdle ==
    /\ store = {}
    /\ request = NoRequest
    /\ response = NoResponse
    /\ storeBefore = {}
DashboardIdle ==
    /\ savedState = CreatedControl
    /\ currentState = CreatedControl
    /\ unsavedBadge = FALSE

SearchIdle ==
    /\ optionsList = [fieldName |-> "sound.keyword", searchTechnique |-> "prefix",
                      searchString |-> <<>>]
    /\ availableOptions = SoundSuggestions

ArchiverIdle ==
    /\ esArchives = <<>>
    /\ lifecycle = [beforeTests |-> <<>>, cleanup |-> <<>>]
    /\ archiverPc = [phase |-> "idle", index |-> 1, suite |-> "", ran |-> {}]
    /\ inProgress = {}
    /\ archiverLog = <<>>

FieldsIdle ==
    /\ fieldsArgument = <<>>
    /\ fieldDefinitions = [returned |-> FALSE]

QueryIdle ==
    /\ queryOptions = Undefined
    /\ queryCall = [called |-> FALSE]

SchemaInit ==
    /\ schemaInput \in DurationInputs \cup SemVerInputs \cup MetadataInputs
    /\ schemaResult = NotParsed
    /\ SuggestIdle /\ TemplateIdle /\ ApiIdle /\ DashboardIdle /\ SearchIdle /\ ArchiverIdle /\ FieldsIdle /\ QueryIdle

SchemaNext ==
    \/ SafeParseDuration
    \/ SafeParseSemVer
    \/ SafeParseMetadata

SchemaSpec == SchemaInit /\ [][SchemaNext]_vars

SuggestInit ==
    /\ suggestions = <<>>
    /\ SchemaIdle /\ TemplateIdle /\ ApiIdle /\ DashboardIdle /\ SearchIdle /\ ArchiverIdle /\ FieldsIdle /\ QueryIdle

SuggestNext ==
    \/ SuggestFunction
    \/ SuggestBuiltin
    \/ SuggestCommand
    \/ SuggestFieldsWithMetadata
    \/ SuggestFields
    \/ SuggestVariables
    \/ SuggestSources
    \/ SuggestConstants
    \/ SuggestNewVar
    \/ SuggestPolicies
    \/ SuggestMatchingFields
    \/ SuggestOption
    \/ SuggestSettings
    \/ SuggestNoPolicies
    \/ SuggestDateLiterals

SuggestSpec == SuggestInit /\ [][SuggestNext]_vars

TemplateInit ==
    /\ templates \in StringsUpTo(Templates, MaxTemplates)
    /\ selectedTemplate = Undefined
    /\ onTemplateChangeCalls = <<>>
    /\ changeEvents = <<>>
    /\ SchemaIdle /\ SuggestIdle /\ ApiIdle /\ DashboardIdle /\ SearchIdle /\ ArchiverIdle /\ FieldsIdle /\ QueryIdle

TemplateNext ==
    \/ Render
    \/ OnChange

TemplateSpec == TemplateInit /\ [][TemplateNext]_vars

ApiInit ==
    /\ store \in SUBSET ExceptionLists
    /\ request = NoRequest
    /\ response = NoResponse
    /\ storeBefore = store
    /\ SchemaIdle /\ SuggestIdle /\ TemplateIdle /\ DashboardIdle /\ SearchIdle /\ ArchiverIdle /\ FieldsIdle /\ QueryIdle

ApiNext == Delete

ApiSpec == ApiInit /\ [][ApiNext]_vars

\* the control is created and the dashboard quick-saved
DashboardInit ==
    /\ savedState = CreatedControl
    /\ currentState = CreatedControl
    /\ unsavedBadge = FALSE
    /\ SchemaIdle /\ SuggestIdle /\ TemplateIdle /\ ApiIdle /\ SearchIdle /\ ArchiverIdle /\ FieldsIdle /\ QueryIdle

DashboardNext ==
    \/ OptionsListPopoverSetSort
    \/ OptionsListSetAdditionalSettings
    \/ ClickQuickSave

DashboardSpec == DashboardInit /\ [][DashboardNext]_vars

\* the control is created on sound.keyword and its popover opened
SearchInit ==
    /\ optionsList = [fieldName |-> "sound.keyword", searchTechnique |-> "prefix",
                      searchString |-> <<>>]
    /\ availableOptions = SoundSuggestions
    /\ SchemaIdle /\ SuggestIdle /\ TemplateIdle /\ ApiIdle /\ DashboardIdle /\ ArchiverIdle /\ FieldsIdle /\ QueryIdle

SearchNext ==
    \/ ControlsEditorSetField
    \/ ControlEditorSetSearchTechnique
    \/ OptionsListPopoverSearchForOption
    \/ OptionsListPopoverClearSearch

SearchSpec == SearchInit /\ [][SearchNext]_vars

\* the services are about to be provided; the configuration is read
ArchiverInit ==
    /\ esArchives \in ArchiveLists
    /\ lifecycle = [beforeTests |-> <<>>, cleanup |-> <<>>]
    /\ archiverPc = [phase |-> "provider", index |-> 1, suite |-> "", ran |-> {}]
    /\ inProgress = {}
    /\ archiverLog = <<>>
    /\ SchemaIdle /\ SuggestIdle /\ TemplateIdle /\ ApiIdle /\ DashboardIdle /\ SearchIdle /\ FieldsIdle /\ QueryIdle

ArchiverNext ==
    \/ EsArchiverProvider
    \/ BeforeTestsTrigger
    \/ LoadStart
    \/ LoadResolve
    \/ LoadReject
    \/ BeforeTestsReturn
    \/ SuiteBefore
    \/ SuiteBeforeSettled
    \/ SuiteAfter
    \/ SuiteAfterSettled
    \/ CleanupTrigger
    \/ UnloadStart
    \/ UnloadResolve
    \/ UnloadReject
    \/ CleanupReturn

ArchiverSpec == ArchiverInit /\ [][ArchiverNext]_vars

\* a caller holds the fields it will hand to the builder
FieldsInit ==
    /\ fieldsArgument \in FieldLists
    /\ fieldDefinitions = [returned |-> FALSE]
    /\ SchemaIdle /\ SuggestIdle /\ TemplateIdle /\ ApiIdle /\ DashboardIdle /\ SearchIdle /\ ArchiverIdle /\ QueryIdle

FieldsNext == BuildFieldsDefinitionsWithMetadata

FieldsSpec == FieldsInit /\ [][FieldsNext]_vars

\* a caller holds the request options it will hand to buildQuery
QueryInit ==
    /\ queryOptions \in QueryOptions
    /\ queryCall = [called |-> FALSE]
    /\ SchemaIdle /\ SuggestIdle /\ TemplateIdle /\ ApiIdle /\ DashboardIdle /\ SearchIdle /\ ArchiverIdle /\ FieldsIdle

QueryNext == BuildQuery

QuerySpec == QueryInit /\ [][QueryNext]_vars

(***************************************************************************)
(* Properties of the schemas (SchemaSpec).                                 *)
(***************************************************************************)
Parsed(schema) == schemaInput.schema = schema /\ schemaResult # NotParsed

\* one or more decimal digits followed by one unit character of {m, d, s, h}
IsDurationString(s) ==
    /\ Len(s) >= 2
    /\ \A i \in 1..(Len(s) - 1) : IsDigit(s[i])
    /\ s[Len(s)] \in {"m", "d", "s", "h"}

\* C6: durationSchema accepts exactly the strings made of one or more decimal
\* digits followed by a single unit character from {m, d, s, h}, rejects every
\* other input, and the parsed unit of an accepted string is 'm', 's', 'h' or 'd'.
C6_DurationAcceptsExactlyUnits ==
    Parsed("duration") =>
        /\ schemaResult.status = "ok" <=>
               (schemaInput.data.type = "string" /\ IsDurationString(schemaInput.data.str))
        /\ schemaResult.status = "ok" => schemaResult.value.unit \in {"m", "s", "h", "d"}

\* the fields of an object input have the types the object schema asks for
WellTypedMetadataObject(data) ==
    /\ data.type = "object"
    /\ data.source.type = "string"
    /\ data.destination.type \in {"string", "undefined"}
    /\ data.limit.type \in {"number", "undefined"}

\* C7: metadataSchema enforces 'limit should be greater than 1': every accepted
\* value has limit greater than 1, and every input whose limit is not greater
\* than 1 is rejected with an issue on path ['limit'].
C7_MetadataLimitGreaterThanOne ==
    Parsed("metadata") =>
        /\ schemaResult.status = "ok" => schemaResult.value.limit.num > 1
        /\ (/\ WellTypedMetadataObject(schemaInput.data)
            /\ schemaInput.data.limit.type = "number"
            /\ schemaInput.data.limit.num <= 1)
               => (schemaResult.status = "error" /\ <<"limit">> \in schemaResult.issues)

\* the source and the destination the refinement sees for a well-typed input
EffectiveSource(data) == IF data.type = "string" THEN data ELSE data.source
EffectiveDestination(data) ==
    IF data.type = "string" THEN data
    ELSE IF data.destination = Undefined THEN data.source ELSE data.destination

IsSemVer(s) ==
    \E i, j \in 1..Len(s) :
        /\ 1 < i /\ i + 1 < j /\ j < Len(s)
        /\ s[i] = "." /\ s[j] = "."
        /\ \A k \in (1..Len(s)) \ {i, j} : IsDigit(s[k])

Answered == request # NoRequest

\* C1: either `id` or `list_id` must be specified: a request that carries
\* neither query parameter never receives the 200 successful response.
C1_NeitherIdNorListIdNever200 ==
    (Answered /\ request.query.id = Undefined /\ request.query.list_id = Undefined)
        => response.status # 200

\* an authorized request without id and list_id was answered, while the store
\* held a list of the namespace it names
C1_Witness ==
    /\ Answered
    /\ request.query.id = Undefined /\ request.query.list_id = Undefined
    /\ request.auth = "ok" /\ ~request.fault
    /\ request.query.namespace_type = Undefined
    /\ \E l \in storeBefore : l.namespace_type = "single"
    /\ response.status = 400

\* C2: every response has one of the declared status codes 200, 400, 401, 403,
\* 404 or 500, and its body follows the schema declared for that status.
C2_ResponsesAreDeclared ==
    Answered =>
        /\ response.status \in {200, 400, 401, 403, 404, 500}
        /\ response.schema \in DeclaredResponses(response.status)
        /\ response.status = 200 => response.body \in storeBefore

\* a request was answered 404 with a SiemErrorResponse
C2_Witness == Answered /\ response.status = 404 /\ response.schema = "SiemErrorResponse"

\* C3: namespace_type is optional, and a request that omits it is handled
\* exactly as the same request with namespace_type = 'single': the same
\* response and the same store afterwards.
C3_OmittedNamespaceTypeIsSingle ==
    (Answered /\ request.query.namespace_type = Undefined) =>
        LET single == [request EXCEPT !.query.namespace_type = Text("single")]
        IN  /\ response = DeleteExceptionList(single, storeBefore).response
            /\ store = DeleteExceptionList(single, storeBefore).store
            /\ response.status = 200 => response.body.namespace_type = "single"

\* a request without namespace_type deleted a list whose list_id also names an
\* agnostic list of the store
C3_Witness ==
    /\ Answered
    /\ request.query.namespace_type = Undefined
    /\ response.status = 200
    /\ \E l \in store : l.list_id = response.body.list_id /\ l.namespace_type = "agnostic"

(***************************************************************************)
(* Properties of TemplateSelector (TemplateSpec).                          *)
(***************************************************************************)
\* the indices of the templates with the key
IndicesOfKey(key) == {i \in 1..Len(templates) : templates[i].key = key}

\* C4: a change event whose value equals the key of a template in the current
\* `templates` prop sets the selected value to that key and calls
\* onTemplateChange exactly once, with the caseFields of the first template in
\* `templates` having that key.
C4_ChangeSelectsFirstTemplateOfKey ==
    [][(/\ Len(changeEvents') = Len(changeEvents) + 1
        /\ IndicesOfKey(changeEvents'[Len(changeEvents')]) # {})
          => LET value == changeEvents'[Len(changeEvents')]
                 first == CHOOSE i \in IndicesOfKey(value) :
                              \A j \in IndicesOfKey(value) : i <= j
             IN  /\ selectedTemplate' = Text(value)
                 /\ onTemplateChangeCalls' =
                        Append(onTemplateChangeCalls, templates[first].caseFields)]_vars

\* a change event chose a key that two templates with different caseFields
\* share, and onTemplateChange received the first one's
C4_Witness ==
    /\ Len(changeEvents) = 1
    /\ Len(onTemplateChangeCalls) = 1
    /\ Len(templates) = 2
    /\ templates[1].key = changeEvents[1] /\ templates[2].key = changeEvents[1]
    /\ templates[1].caseFields # templates[2].caseFields
    /\ onTemplateChangeCalls[1] = templates[1].caseFields
    /\ selectedTemplate = Text(changeEvents[1])

(***************************************************************************)
(* Properties of the suggestion builders (SuggestSpec).                    *)
(***************************************************************************)
\* C5: aggregation function suggestions have priority over everything else:
\* the sortText of a suggestion built for a function of type 'agg' orders
\* strictly before the sortText of every suggestion of any other kind.
C5_AggSortsBeforeEverythingElse ==
    \A i, j \in 1..Len(suggestions) :
        (suggestions[i].aggFunction /\ ~suggestions[j].aggFunction) =>
            StringLess(suggestions[i].suggestion.sortText,
                       suggestions[j].suggestion.sortText)

(***************************************************************************)
(* Properties of the options list control (DashboardSpec).                 *)
(***************************************************************************)
SortInEffect(state) ==
    IF state.sort = Undefined THEN [by |-> "_count", direction |-> "desc"] ELSE state.sort

TechniqueInEffect(state) ==
    IF state.searchTechnique = Undefined THEN "prefix" ELSE state.searchTechnique.text

\* C10: the unsaved-changes badge is present exactly when the control's
\* settings in effect differ from the last saved ones; with the defaults saved,
\* a non-default sort or search technique shows the badge, and sort by _count
\* descending with search technique 'prefix' removes it.
C10_BadgeIffSettingsDiffer ==
    /\ unsavedBadge <=>
           (\/ SortInEffect(currentState) # SortInEffect(savedState)
            \/ TechniqueInEffect(currentState) # TechniqueInEffect(savedState))
    /\ savedState = CreatedControl =>
           (unsavedBadge <=>
               (\/ SortInEffect(currentState) # [by |-> "_count", direction |-> "desc"]
                \/ TechniqueInEffect(currentState) # "prefix"))

\* the sort and the search technique were set back to the defaults that the
\* saved control never set, and the badge is gone
C10_Witness ==
    /\ savedState = CreatedControl
    /\ currentState.sort = [by |-> "_count", direction |-> "desc"]
    /\ currentState.searchTechnique = Text("prefix")
    /\ ~unsavedBadge

(***************************************************************************)
(* Properties of the options list search (SearchSpec).                     *)
(***************************************************************************)
\* two characters that differ at most in case
SameLetter(a, b) == a = b \/ {a, b} \in {{"r", "R"}, {"f", "F"}}

\* q occurs in s at offset k, case ignored
OccursAt(s, q, k) ==
    /\ k + Len(q) <= Len(s)
    /\ \A i \in 1..Len(q) : SameLetter(s[k + i], q[i])

\* C11: searching on a keyword field is case-insensitive and follows the
\* configured technique: 'prefix' offers exactly the suggestions that start
\* with the search string, 'wildcard' exactly those that contain it, 'exact'
\* exactly those equal to it; on a numeric field only exact match is supported.
C11_SearchFollowsTechnique ==
    LET q == optionsList.searchString
    IN  Len(q) > 0 =>
            IF optionsList.fieldName = "sound.keyword"
            THEN /\ optionsList.searchTechnique = "prefix" =>
                        availableOptions = {s \in SoundSuggestions : OccursAt(s, q, 0)}
                 /\ optionsList.searchTechnique = "wildcard" =>
                        availableOptions =
                            {s \in SoundSuggestions : \E k \in 0..Len(s) : OccursAt(s, q, k)}
                 /\ optionsList.searchTechnique = "exact" =>
                        availableOptions =
                            {s \in SoundSuggestions : Len(s) = Len(q) /\ OccursAt(s, q, 0)}
            ELSE availableOptions = {w \in WeightSuggestions : w = q}

\* the exact search for 'RuFf' on the keyword field offers the one option ruff
C11_Witness ==
    /\ optionsList.fieldName = "sound.keyword"
    /\ optionsList.searchTechnique = "exact"
    /\ optionsList.searchString = <<"R", "u", "F", "f">>
    /\ availableOptions = {<<"r", "u", "f", "f">>}

(***************************************************************************)
(* Properties of EsArchiverProvider and the run around it (ArchiverSpec).  *)
(***************************************************************************)
\* the calls of `op` made by the registered handlers that reached `event`
HandlerCalls(op, event) ==
    SelectSeq(archiverLog, LAMBDA e : e.op = op /\ e.event = event /\ e.index > 0)

ArchivesOf(calls) == [i \in 1..Len(calls) |-> calls[i].archive]

IsPrefix(s, t) == Len(s) <= Len(t) /\ \A i \in 1..Len(s) : s[i] = t[i]

IsHandlerLoad(e, event) == e.op = "load" /\ e.index > 0 /\ e.event = event

\* C12: the beforeTests handler loads the configured archives one at a time
\* in configured order: a load never starts before the load of the preceding
\* archive has completed, at most one load is in progress at any moment, and
\* after a failed load no later archive is loaded.
C12_LoadsOneAtATimeInOrder ==
    /\ Cardinality({c \in inProgress : c.op = "load"}) <= 1
    /\ LET starts == HandlerCalls("load", "start")
       IN  /\ IsPrefix(ArchivesOf(starts), esArchives)
           /\ \A i \in 1..Len(starts) : starts[i].index = i
    /\ \A k \in 1..Len(archiverLog) :
           IsHandlerLoad(archiverLog[k], "start") =>
               /\ archiverLog[k].index > 1 =>
                      \E j \in 1..(k - 1) :
                          /\ IsHandlerLoad(archiverLog[j], "done")
                          /\ archiverLog[j].index = archiverLog[k].index - 1
               /\ \A j \in 1..(k - 1) : ~IsHandlerLoad(archiverLog[j], "failed")

\* two archives are configured and the second has been loaded after the first
C12_Witness ==
    /\ Len(esArchives) = 2
    /\ ArchivesOf(HandlerCalls("load", "done")) = esArchives
    /\ esArchives[1] # esArchives[2]

\* a suite's load at position j of the log is followed by the suite's unload
SuiteUnloadsAfter(j) ==
    \E k \in (j + 1)..Len(archiverLog) :
        /\ archiverLog[k].op = "unload"
        /\ archiverLog[k].index = 0
        /\ archiverLog[k].archive = archiverLog[j].archive
        /\ archiverLog[k].event = "start"

\* C13: every archive loaded before tests is unloaded afterwards: with a
\* non-empty testData.esArchives the provider registers one beforeTests handler
\* and one cleanup handler, and once the cleanup handler has completed every
\* configured archive has been unloaded exactly once, in the order in which the
\* archives were loaded; with an empty list neither handler is registered.
C13_LoadedArchivesAreUnloaded ==
    /\ archiverPc.phase # "provider" =>
           IF Len(esArchives) = 0
           THEN Len(lifecycle.beforeTests) = 0 /\ Len(lifecycle.cleanup) = 0
           ELSE Len(lifecycle.beforeTests) = 1 /\ Len(lifecycle.cleanup) = 1
    /\ archiverPc.phase = "done" =>
           /\ ArchivesOf(HandlerCalls("unload", "done")) = esArchives
           /\ Len(HandlerCalls("unload", "start")) = Len(esArchives)
           /\ IsPrefix(ArchivesOf(HandlerCalls("load", "done")),
                       ArchivesOf(HandlerCalls("unload", "done")))
           /\ \A j, k \in 1..Len(archiverLog) :
                  /\ archiverLog[j].op = "load" /\ archiverLog[j].index > 0
                  /\ archiverLog[k].op = "unload" /\ archiverLog[k].index > 0
                  => j < k
           /\ \A j \in 1..Len(archiverLog) :
                  archiverLog[j].op = "load" /\ archiverLog[j].index = 0 =>
                      SuiteUnloadsAfter(j)

\* two different archives were loaded before the tests, a suite ran, and the
\* cleanup handler has completed
C13_Witness ==
    /\ archiverPc.phase = "done"
    /\ Len(esArchives) = 2
    /\ esArchives[1] # esArchives[2]
    /\ ArchivesOf(HandlerCalls("load", "done")) = esArchives
    /\ archiverPc.ran # {}

(***************************************************************************)
(* Properties of buildFieldsDefinitionsWithMetadata (FieldsSpec).          *)
(***************************************************************************)
\* the field has a metadata description that is not the empty string
HasDescription(field) ==
    /\ field.metadata # Undefined
    /\ field.metadata.description # Undefined
    /\ field.metadata.description # Text("")

\* C14: buildFieldsDefinitionsWithMetadata returns one suggestion per input
\* field in input order; a field with a non-empty metadata description gets
\* sortText '1D', which orders strictly before the 'D' of a field without one,
\* and it carries a documentation value if and only if it has a description.
C14_DescribedFieldsSortFirst ==
    fieldDefinitions.returned =>
        LET result == fieldDefinitions.value
        IN  /\ Len(result) = Len(fieldsArgument)
            /\ \A i \in 1..Len(fieldsArgument) :
                   /\ result[i].label = fieldsArgument[i].name
                   /\ result[i].sortText =
                          IF HasDescription(fieldsArgument[i]) THEN <<"1", "D">> ELSE <<"D">>
                   /\ result[i].documentation # Undefined <=> HasDescription(fieldsArgument[i])
                   /\ HasDescription(fieldsArgument[i]) =>
                          result[i].documentation.value =
                              "\n---\n\n" \o fieldsArgument[i].metadata.description.text
            /\ \A i, j \in 1..Len(fieldsArgument) :
                   HasDescription(fieldsArgument[i]) /\ ~HasDescription(fieldsArgument[j])
                       => StringLess(result[i].sortText, result[j].sortText)

\* a field with an empty description, followed by a described one, was built
C14_Witness ==
    /\ fieldDefinitions.returned
    /\ Len(fieldsArgument) = 2
    /\ fieldsArgument[1].metadata = [description |-> Text("")]
    /\ HasDescription(fieldsArgument[2])
    /\ fieldDefinitions.value[1].sortText = <<"D">>
    /\ fieldDefinitions.value[2].sortText = <<"1", "D">>

(***************************************************************************)
(* Properties of buildQuery (QuerySpec).                                   *)
(***************************************************************************)
\* the composite aggregation of a query
CompositeOf(query) ==
    query.fields.body.fields.aggregations.fields.group_by_users.fields.composite

\* the query with the key after of its composite aggregation taken away
WithoutAfter(query) ==
    [query EXCEPT
        !.fields.body.fields.aggregations.fields.group_by_users.fields.composite.fields =
            [k \in DOMAIN @ \ {"after"} |-> @[k]]]

\* a cursor that is neither undefined, null nor the empty string
CursorGiven(cursor) == cursor \notin {Undefined, Null, Text("")}

\* C15: buildQuery does not change its options argument; with a truthy cursor
\* the returned query is the query built for the same options without a cursor
\* plus the one key body.aggregations.group_by_users.composite.after =
\* { user_uid: cursor }; with a falsy cursor the composite has no after key.
C15_CursorOnlyAddsAfter ==
    queryCall.called =>
        LET requestOptions == queryCall.options
            cursor == requestOptions.pagination.cursor
            composite == CompositeOf(queryCall.result)
        IN  /\ queryOptions = requestOptions
            /\ IF CursorGiven(cursor)
               THEN /\ "after" \in DOMAIN composite.fields
                    /\ composite.fields.after = Obj([user_uid |-> cursor])
                    /\ WithoutAfter(queryCall.result) =
                           buildQuery([requestOptions EXCEPT !.pagination.cursor = Undefined])
               ELSE "after" \notin DOMAIN composite.fields

\* a query was built for a request that carries the cursor 'root'
C15_Witness ==
    /\ queryCall.called
    /\ queryCall.options.pagination.cursor = Text("root")
    /\ CompositeOf(queryCall.result).fields.after = Obj([user_uid |-> Text("root")])
    /\ CompositeOf(queryCall.result).fields.size = Num(queryCall.options.pagination.limit + 1)

=============================================================================
